---- MODULE Spec2Model ----
(***************************************************************************)
(* Finance tracker backend: value objects, entity, repository, application *)
(* service and HTTP routes of finance_tracker_backend, as a state machine  *)
(* over the finance_entries table.                                         *)
(*                                                                         *)
(* Python values are tagged records: [str |-> <<chars>>], [num |-> n],     *)
(* [date |-> [y, m, d]], [none |-> TRUE].  Text is a sequence of one-      *)
(* character strings so that strip(), float() and the date parsers are     *)
(* computed character by character.  Amounts are integers (the model has   *)
(* no binary floating point; sums are exact).                              *)
(***************************************************************************)
EXTENDS Integers, Sequences, FiniteSets, TLC

(***************************************************************************)
(* Bounds                                                                  *)
(***************************************************************************)
\* Largest primary key the table hands out in a run.
MaxId == 2

(***************************************************************************)
(* Python values                                                           *)
(***************************************************************************)
PyStr(s) == [str |-> s]
PyNum(n) == [num |-> n]
PyDate(y, m, d) == [date |-> [y |-> y, m |-> m, d |-> d]]
PyNone == [none |-> TRUE]

IsStr(v) == DOMAIN v = {"str"}
IsNum(v) == DOMAIN v = {"num"}
IsDate(v) == DOMAIN v = {"date"}
IsNone(v) == DOMAIN v = {"none"}

\* Outcome of a call: a returned value or a raised exception.
Return(v) == [ok |-> TRUE, value |-> v]
Raise(type, msg) == [ok |-> FALSE, type |-> type, msg |-> msg]

Fields == <<"description", "amount", "category", "date">>
FieldSet == {Fields[i] : i \in 1..Len(Fields)}

(***************************************************************************)
(* Text helpers (str.strip, digits)                                        *)
(***************************************************************************)
Whitespace == {" "}
Digits == {"0", "1", "2", "3", "4", "5", "6", "7", "8", "9"}
DigitVal == ("0" :> 0) @@ ("1" :> 1) @@ ("2" :> 2) @@ ("3" :> 3) @@ ("4" :> 4)
            @@ ("5" :> 5) @@ ("6" :> 6) @@ ("7" :> 7) @@ ("8" :> 8) @@ ("9" :> 9)

RECURSIVE LStrip(_)
LStrip(s) ==
    IF s # <<>> /\ Head(s) \in Whitespace THEN LStrip(Tail(s)) ELSE s

RECURSIVE RStrip(_)
RStrip(s) ==
    IF s # <<>> /\ s[Len(s)] \in Whitespace
    THEN RStrip(SubSeq(s, 1, Len(s) - 1))
    ELSE s

\* str.strip()
Strip(s) == RStrip(LStrip(s))

AllDigits(s) == s # <<>> /\ \A i \in 1..Len(s) : s[i] \in Digits

RECURSIVE DigitsValue(_)
DigitsValue(s) ==
    IF s = <<>> THEN 0
    ELSE 10 * DigitsValue(SubSeq(s, 1, Len(s) - 1)) + DigitVal[s[Len(s)]]

DigitChars == <<"0", "1", "2", "3", "4", "5", "6", "7", "8", "9">>

RECURSIVE DigitsOf(_)
DigitsOf(n) ==
    IF n < 10 THEN <<DigitChars[n + 1]>>
    ELSE Append(DigitsOf(n \div 10), DigitChars[(n % 10) + 1])

RECURSIVE ZeroPad(_, _)
ZeroPad(s, width) == IF Len(s) >= width THEN s ELSE ZeroPad(<<"0">> \o s, width)

(***************************************************************************)
(* Builtins: float(), datetime.date, date.fromisoformat, strptime          *)
(***************************************************************************)
\* float(value): numbers pass, text is stripped and read as an optionally
\* signed decimal integer, anything else raises.
PyFloat(value) ==
    IF IsNum(value) THEN Return(value)
    ELSE IF IsStr(value) THEN
        LET t == Strip(value.str)
            signed == t # <<>> /\ Head(t) \in {"+", "-"}
            body == IF signed THEN Tail(t) ELSE t
        IN  IF AllDigits(body)
            THEN Return(PyNum(IF signed /\ Head(t) = "-"
                              THEN 0 - DigitsValue(body) ELSE DigitsValue(body)))
            ELSE Raise("ValueError", "could not convert string to float")
    ELSE Raise("TypeError", "float() argument must be a string or a real number")

IsLeap(y) == (y % 4 = 0 /\ y % 100 # 0) \/ y % 400 = 0
DaysInMonth(y, m) ==
    IF m = 2 THEN (IF IsLeap(y) THEN 29 ELSE 28)
    ELSE IF m \in {4, 6, 9, 11} THEN 30 ELSE 31

\* datetime.date(y, m, d)
MakeDate(y, m, d, msg) ==
    IF y >= 1 /\ m \in 1..12 /\ d >= 1 /\ d <= DaysInMonth(y, m)
    THEN Return(PyDate(y, m, d))
    ELSE Raise("ValueError", msg)

\* date.fromisoformat(s): YYYY-MM-DD, or the basic form YYYYMMDD.
FromIsoFormat(s) ==
    LET msg == "Invalid isoformat string"
    IN  IF Len(s) = 10 /\ s[5] = "-" /\ s[8] = "-"
           /\ AllDigits(SubSeq(s, 1, 4)) /\ AllDigits(SubSeq(s, 6, 7))
           /\ AllDigits(SubSeq(s, 9, 10))
        THEN MakeDate(DigitsValue(SubSeq(s, 1, 4)), DigitsValue(SubSeq(s, 6, 7)),
                      DigitsValue(SubSeq(s, 9, 10)), msg)
        ELSE IF Len(s) = 8 /\ AllDigits(s)
        THEN MakeDate(DigitsValue(SubSeq(s, 1, 4)), DigitsValue(SubSeq(s, 5, 6)),
                      DigitsValue(SubSeq(s, 7, 8)), msg)
        ELSE Raise("ValueError", msg)

\* datetime.strptime(s, "%Y-%m-%d").date(): four-digit year, then month and
\* day of one or two digits each.
Strptime(s) ==
    LET msg == "time data does not match format"
        dashes == {i \in 1..Len(s) : s[i] = "-"}
    IN  IF Cardinality(dashes) = 2 /\ 5 \in dashes
        THEN LET j == CHOOSE i \in dashes : i # 5
                 ys == SubSeq(s, 1, 4)
                 ms == SubSeq(s, 6, j - 1)
                 ds == SubSeq(s, j + 1, Len(s))
             IN  IF AllDigits(ys) /\ AllDigits(ms) /\ AllDigits(ds)
                    /\ Len(ms) \in 1..2 /\ Len(ds) \in 1..2
                 THEN MakeDate(DigitsValue(ys), DigitsValue(ms), DigitsValue(ds), msg)
                 ELSE Raise("ValueError", msg)
        ELSE Raise("ValueError", msg)

\* date.isoformat()
IsoFormat(dt) ==
    ZeroPad(DigitsOf(dt.date.y), 4) \o <<"-">> \o ZeroPad(DigitsOf(dt.date.m), 2)
    \o <<"-">> \o ZeroPad(DigitsOf(dt.date.d), 2)

(***************************************************************************)
(* Value objects (domain/finance_entry/value_objects.py)                   *)
(***************************************************************************)
\* `not value or not value.strip()` for a text field
TextValueObject(value, msg) ==
    IF IsNone(value) THEN Raise("ValueError", msg)
    ELSE IF IsStr(value) THEN
        (IF value.str = <<>> \/ Strip(value.str) = <<>>
         THEN Raise("ValueError", msg)
         ELSE Return(PyStr(Strip(value.str))))
    ELSE IF IsNum(value) /\ value.num = 0 THEN Raise("ValueError", msg)
    ELSE Raise("AttributeError", "object has no attribute 'strip'")

Description(value) == TextValueObject(value, "Description cannot be empty")

Amount(value) ==
    LET f == PyFloat(value)
    IN  IF f.ok THEN f ELSE Raise("ValueError", "Amount must be a valid number")

Category(value) == TextValueObject(value, "Category cannot be empty")

EntryDate(value) ==
    IF IsStr(value) THEN
        (LET parsed == FromIsoFormat(value.str)
         IN  IF parsed.ok THEN parsed
             ELSE Raise("ValueError", "Invalid date format (use YYYY-MM-DD)"))
    ELSE IF IsDate(value) THEN Return(value)
    ELSE Raise("ValueError", "Date must be a string or a datetime.date instance")

(***************************************************************************)
(* validate_entry_data (domain/finance_entry/services.py)                  *)
(* data is a mapping from a subset of the field names to Python values.    *)
(***************************************************************************)
validate_entry_data(data, for_update) ==
    IF for_update /\ DOMAIN data \cap FieldSet = {}
    THEN Raise("ValueError", "At least one field (description, amount, category, date) required for update")
    ELSE IF ~for_update /\ ~(FieldSet \subseteq DOMAIN data)
    THEN Raise("ValueError", "Missing fields")
    ELSE LET description == IF "description" \in DOMAIN data
                            THEN Description(data["description"]) ELSE Return(TRUE)
             amount == IF "amount" \in DOMAIN data
                       THEN Amount(data["amount"]) ELSE Return(TRUE)
             category == IF "category" \in DOMAIN data
                         THEN Category(data["category"]) ELSE Return(TRUE)
             date == IF "date" \in DOMAIN data
                     THEN EntryDate(data["date"]) ELSE Return(TRUE)
         IN  IF ~description.ok THEN description
             ELSE IF ~amount.ok THEN amount
             ELSE IF ~category.ok THEN category
             ELSE IF ~date.ok THEN date
             ELSE Return(TRUE)

(***************************************************************************)
(* Entity (domain/finance_entry/entities.py)                               *)
(***************************************************************************)
\* FinanceEntry.__init__: plain assignments
FinanceEntry(id, description, amount, category, entry_date) ==
    [id |-> id, description |-> description, amount |-> amount,
     category |-> category, date |-> entry_date]

\* FinanceEntry.as_dict: date.isoformat() exists on date objects only
as_dict(e) ==
    IF IsDate(e.date)
    THEN Return([id |-> e.id, description |-> e.description, amount |-> e.amount,
                 category |-> e.category, date |-> PyStr(IsoFormat(e.date))])
    ELSE Raise("AttributeError", "object has no attribute 'isoformat'")

(***************************************************************************)
(* Table finance_entries (infrastructure/persistence/db_models.py)         *)
(* rows: id -> [description, amount, category, date].  The engine is       *)
(* SQLite (config/settings.py): a Float column binds float(value), a Date  *)
(* column accepts date objects only, and an integer primary key without    *)
(* the AUTOINCREMENT keyword takes the largest id in the table plus one.   *)
(***************************************************************************)
FloatColumn(value) ==
    LET f == PyFloat(value)
    IN  IF f.ok THEN f
        ELSE Raise("StatementError", "could not convert string to float")

DateColumn(value) ==
    IF IsDate(value) THEN Return(value)
    ELSE Raise("StatementError", "SQLite Date type only accepts Python date objects as input.")

\* The parameters of the INSERT / UPDATE statement that commit() flushes.
BindRow(e) ==
    LET amount == FloatColumn(e.amount)
        date == DateColumn(e.date)
    IN  IF ~amount.ok THEN amount
        ELSE IF ~date.ok THEN date
        ELSE Return([description |-> e.description, amount |-> amount.value,
                     category |-> e.category, date |-> date.value])

RECURSIVE MaxOf(_)
MaxOf(S) ==
    IF S = {} THEN 0
    ELSE LET x == CHOOSE x \in S : TRUE
             m == MaxOf(S \ {x})
         IN  IF x > m THEN x ELSE m

NextRowId(tbl) == MaxOf(DOMAIN tbl) + 1

EmptyTable == [i \in {} |-> PyNone]

(***************************************************************************)
(* Repository (infrastructure/persistence/sqlalchemy_repo.py)              *)
(* A write returns [tbl |-> table afterwards, out |-> Return / Raise].     *)
(***************************************************************************)
DateKey(dt) == (dt.date.y * 12 + dt.date.m) * 31 + dt.date.d

\* Variant: ORDER BY id DESC alone.
OrderedBefore_IdOnly(tbl, i, j) == i > j

\* ORDER BY date DESC, id DESC
OrderedBefore(tbl, i, j) ==
    \/ DateKey(tbl[i].date) > DateKey(tbl[j].date)
    \/ DateKey(tbl[i].date) = DateKey(tbl[j].date) /\ i > j

RowEntity(tbl, id) ==
    FinanceEntry(id, tbl[id].description, tbl[id].amount, tbl[id].category,
                 tbl[id].date)

RECURSIVE OrderedIds(_, _)
OrderedIds(tbl, ids) ==
    IF ids = {} THEN <<>>
    ELSE LET first == CHOOSE i \in ids : \A j \in ids \ {i} : OrderedBefore(tbl, i, j)
         IN  <<first>> \o OrderedIds(tbl, ids \ {first})

list_entries(tbl) ==
    LET ids == OrderedIds(tbl, DOMAIN tbl)
    IN  [k \in 1..Len(ids) |-> RowEntity(tbl, ids[k])]

get_by_id(tbl, entry_id) ==
    IF entry_id \in DOMAIN tbl THEN RowEntity(tbl, entry_id) ELSE PyNone

add(tbl, entry) ==
    LET bound == BindRow(entry)
        id == NextRowId(tbl)
    IN  IF ~bound.ok THEN [tbl |-> tbl, out |-> bound]
        ELSE [tbl |-> (id :> bound.value) @@ tbl,
              out |-> Return([entry EXCEPT !.id = id])]

update(tbl, entry) ==
    IF entry.id \notin DOMAIN tbl
    THEN [tbl |-> tbl, out |-> Raise("ValueError", "Entry not found")]
    ELSE LET bound == BindRow(entry)
         IN  IF ~bound.ok THEN [tbl |-> tbl, out |-> bound]
             ELSE [tbl |-> [tbl EXCEPT ![entry.id] = bound.value],
                   out |-> Return(entry)]

\* Variant: reports a removal whether or not a row matched.
delete_AlwaysTrue(tbl, entry_id) ==
    [tbl |-> [i \in DOMAIN tbl \ {entry_id} |-> tbl[i]], out |-> Return(TRUE)]

delete(tbl, entry_id) ==
    IF entry_id \notin DOMAIN tbl THEN [tbl |-> tbl, out |-> Return(FALSE)]
    ELSE [tbl |-> [i \in DOMAIN tbl \ {entry_id} |-> tbl[i]], out |-> Return(TRUE)]

(***************************************************************************)
(* Application service (application/entry_service.py)                      *)
(***************************************************************************)
Service_list(tbl) == list_entries(tbl)

Service_get(tbl, entry_id) == get_by_id(tbl, entry_id)

Service_create(tbl, description, amount, category, entry_date) ==
    LET f == PyFloat(amount)
    IN  IF ~f.ok THEN [tbl |-> tbl, out |-> f]
        ELSE add(tbl, FinanceEntry(PyNone, description, f.value, category, entry_date))

\* Variant: a description absent from kwargs is reset to the empty string.
SetFields_Blanking(entry, kwargs) ==
    [f \in DOMAIN entry |->
        IF f \in FieldSet /\ f \in DOMAIN kwargs /\ ~IsNone(kwargs[f]) THEN kwargs[f]
        ELSE IF f = "description" THEN PyStr(<<>>)
        ELSE entry[f]]

\* for field in [...]: if field in kwargs and kwargs[field] is not None: setattr
SetFields(entry, kwargs) ==
    [f \in DOMAIN entry |->
        IF f \in FieldSet /\ f \in DOMAIN kwargs /\ ~IsNone(kwargs[f])
        THEN kwargs[f] ELSE entry[f]]

\* Variant: no check of the loaded entry; setattr on None raises.
Service_update_NoCheck(tbl, entry_id, kwargs) ==
    LET entry == get_by_id(tbl, entry_id)
    IN  IF IsNone(entry)
        THEN [tbl |-> tbl,
              out |-> Raise("AttributeError", "'NoneType' object has no attribute")]
        ELSE update(tbl, SetFields(entry, kwargs))

Service_update(tbl, entry_id, kwargs) ==
    LET entry == get_by_id(tbl, entry_id)
    IN  IF IsNone(entry)
        THEN [tbl |-> tbl, out |-> Raise("ValueError", "Not found")]
        ELSE update(tbl, SetFields(entry, kwargs))

\* FinanceEntryService.update up to its call of repo.update: the entry is
\* loaded, checked and its fields are set.
Service_update_load(tbl, entry_id, kwargs) ==
    LET entry == get_by_id(tbl, entry_id)
    IN  IF IsNone(entry) THEN Raise("ValueError", "Not found")
        ELSE Return(SetFields(entry, kwargs))

Service_delete(tbl, entry_id) == delete(tbl, entry_id)

(***************************************************************************)
(* HTTP routes (api/routes.py).  A handler returns                         *)
(* [tbl |-> table afterwards, code |-> status, body |-> JSON body].        *)
(***************************************************************************)
Response(tbl, code, body) == [tbl |-> tbl, code |-> code, body |-> body]
ErrorBody(msg) == [error |-> msg]

\* `"Not found" in str(e)`: of the messages the program raises, the ones
\* that contain the text "Not found" with a capital N.
HasNotFound(msg) == msg \in {"Not found"}

\* The handlers' date argument: an ISO string becomes a date when strptime
\* reads it, and is passed on unchanged when it does not.
RouteDate(value) ==
    IF IsStr(value)
    THEN LET parsed == Strptime(value.str)
         IN  IF parsed.ok THEN parsed.value ELSE value
    ELSE value

RECURSIVE SumAmounts_Abs(_)
\* Variant: sums the magnitudes of the amounts.
SumAmounts_Abs(entries) ==
    IF Len(entries) = 0 THEN 0
    ELSE LET n == entries[Len(entries)].amount.num
         IN  SumAmounts_Abs(SubSeq(entries, 1, Len(entries) - 1))
             + (IF n < 0 THEN 0 - n ELSE n)

RECURSIVE SumAmounts(_)
\* sum(e.amount for e in entries)
SumAmounts(entries) ==
    IF Len(entries) = 0 THEN 0
    ELSE SumAmounts(SubSeq(entries, 1, Len(entries) - 1))
         + entries[Len(entries)].amount.num

get_entries(tbl) ==
    LET entries == Service_list(tbl)
    IN  Response(tbl, 200,
                 [entries |-> [k \in 1..Len(entries) |-> as_dict(entries[k]).value],
                  running_total |-> PyNum(SumAmounts(entries))])

add_entry(tbl, data) ==
    IF DOMAIN data = {}
    THEN Response(tbl, 400, ErrorBody("Request body must be JSON"))
    ELSE LET valid == validate_entry_data(data, FALSE)
         IN  IF ~valid.ok THEN Response(tbl, 400, ErrorBody(valid.msg))
             ELSE LET r == Service_create(tbl, data["description"], data["amount"],
                                          data["category"], RouteDate(data["date"]))
                      body == as_dict(r.out.value)
                  IN  IF ~r.out.ok THEN Response(r.tbl, 400, ErrorBody(r.out.msg))
                      ELSE IF ~body.ok THEN Response(r.tbl, 400, ErrorBody(body.msg))
                      ELSE Response(r.tbl, 201, body.value)

UpdateFields(data) ==
    [f \in DOMAIN data \cap FieldSet |->
        IF f = "date" THEN RouteDate(data[f]) ELSE data[f]]

\* except Exception as e: 404 if "Not found" in str(e) else 400
UpdateError(tbl, msg) ==
    IF HasNotFound(msg) THEN Response(tbl, 404, ErrorBody("Entry not found"))
    ELSE Response(tbl, 400, ErrorBody(msg))

update_entry(tbl, entry_id, data) ==
    IF DOMAIN data = {}
    THEN Response(tbl, 400, ErrorBody("Request body must be JSON"))
    ELSE LET valid == validate_entry_data(data, TRUE)
         IN  IF ~valid.ok THEN UpdateError(tbl, valid.msg)
             ELSE LET r == Service_update(tbl, entry_id, UpdateFields(data))
                      body == as_dict(r.out.value)
                  IN  IF ~r.out.ok THEN UpdateError(r.tbl, r.out.msg)
                      ELSE IF ~body.ok THEN UpdateError(r.tbl, body.msg)
                      ELSE Response(r.tbl, 200, body.value)

\* update_entry up to the service's call of repo.update:
\* [done |-> TRUE, response] when the handler answers before it writes,
\* [done |-> FALSE, entry] when the entry is loaded and about to be written.
update_entry_load(tbl, entry_id, data) ==
    IF DOMAIN data = {}
    THEN [done |-> TRUE,
          response |-> Response(tbl, 400, ErrorBody("Request body must be JSON"))]
    ELSE LET valid == validate_entry_data(data, TRUE)
             loaded == Service_update_load(tbl, entry_id, UpdateFields(data))
         IN  IF ~valid.ok THEN [done |-> TRUE, response |-> UpdateError(tbl, valid.msg)]
             ELSE IF ~loaded.ok
             THEN [done |-> TRUE, response |-> UpdateError(tbl, loaded.msg)]
             ELSE [done |-> FALSE, entry |-> loaded.value]

\* update_entry from the service's call of repo.update to the response.
update_entry_write(tbl, entry) ==
    LET r == update(tbl, entry)
        body == as_dict(r.out.value)
    IN  IF ~r.out.ok THEN UpdateError(r.tbl, r.out.msg)
        ELSE IF ~body.ok THEN UpdateError(r.tbl, body.msg)
        ELSE Response(r.tbl, 200, body.value)

delete_entry(tbl, entry_id) ==
    LET r == Service_delete(tbl, entry_id)
    IN  IF r.out.value THEN Response(r.tbl, 200, [message |-> "Entry deleted"])
        ELSE Response(r.tbl, 404, ErrorBody("Entry not found"))

(***************************************************************************)
(* Inputs                                                                  *)
(***************************************************************************)
S_2024_01_10 == <<"2", "0", "2", "4", "-", "0", "1", "-", "1", "0">>
S_10_01_2024 == <<"1", "0", "-", "0", "1", "-", "2", "0", "2", "4">>

Ids == 1..MaxId

D_2024_01_10 == PyDate(2024, 1, 10)
D_2024_01_11 == PyDate(2024, 1, 11)

Tuple(d, a, c, dt) == [description |-> d, amount |-> a, category |-> c, date |-> dt]

\* Arguments of a direct call of the service: two tuples of valid Python
\* values, one with the date as a YYYY-MM-DD string, and tuples with an empty
\* description, a non-numeric amount and a date string in another format.
CallTuples ==
    { Tuple(PyStr(<<"a">>), PyNum(10), PyStr(<<"F">>), D_2024_01_10),
      Tuple(PyStr(<<"a">>), PyNum(0 - 3), PyStr(<<"F">>), D_2024_01_11),
      Tuple(PyStr(<<"a">>), PyNum(10), PyStr(<<"F">>), PyStr(S_2024_01_10)),
      Tuple(PyStr(<<>>), PyNum(10), PyStr(<<"F">>), D_2024_01_10),
      Tuple(PyStr(<<"a">>), PyStr(<<"a", "b", "c">>), PyStr(<<"F">>), D_2024_01_10),
      Tuple(PyStr(<<"a">>), PyNum(10), PyStr(<<"F">>), PyStr(S_10_01_2024)) }

\* JSON request bodies: a clean tuple, one with a padded description and the
\* amount as a numeric string, and one tuple for each way a field can be
\* invalid.
JsonTuples ==
    { Tuple(PyStr(<<"a">>), PyNum(0 - 3), PyStr(<<"F">>), PyStr(S_2024_01_10)),
      Tuple(PyStr(<<" ", "a">>), PyStr(<<"2", "0">>), PyStr(<<"F">>), PyStr(S_2024_01_10)),
      Tuple(PyStr(<<>>), PyNum(0 - 3), PyStr(<<"F">>), PyStr(S_2024_01_10)),
      Tuple(PyStr(<<"a">>), PyStr(<<"a", "b", "c">>), PyStr(<<"F">>), PyStr(S_2024_01_10)),
      Tuple(PyStr(<<"a">>), PyNum(0 - 3), PyStr(<<" ">>), PyStr(S_2024_01_10)),
      Tuple(PyStr(<<"a">>), PyNum(0 - 3), PyStr(<<"F">>), PyStr(S_10_01_2024)) }

Restrict(f, S) == [k \in S |-> f[k]]

\* A partial-field set names no field, one field or all four.
PartialShapes == {{}} \cup {{f} : f \in FieldSet} \cup {FieldSet}

Partials(tuples) == {Restrict(t, S) : t \in tuples, S \in PartialShapes}

\* Keyword arguments of a direct call of the service's update.
KwargsInputs == Partials(CallTuples) \cup {[amount |-> PyNone]}

\* JSON objects of a request body.
JsonBodies == Partials(JsonTuples)

(***************************************************************************)
(* State                                                                   *)
(***************************************************************************)
VARIABLES
    rows,     \* table finance_entries
    req,      \* the last call or request that was answered
    resp,     \* what it returned
    inflight  \* a PUT between the service's get_by_id and the repository's update

vars == <<rows, req, resp, inflight>>

\* No PUT is between its two reads of the table.
NoPut == [op |-> "none"]

Init ==
    /\ rows = EmptyTable
    /\ req = [op |-> "none"]
    /\ resp = [op |-> "none"]
    /\ inflight = NoPut

\* The table has room for the row an insert would add.
HasRoom(tbl) == NextRowId(tbl) <= MaxId

(***************************************************************************)
(* Direct calls of the application service                                 *)
(***************************************************************************)
CallList ==
    /\ req' = [op |-> "list"]
    /\ resp' = Return(Service_list(rows))
    /\ UNCHANGED <<rows, inflight>>

CallGet(id) ==
    /\ req' = [op |-> "get", id |-> id]
    /\ resp' = Return(Service_get(rows, id))
    /\ UNCHANGED <<rows, inflight>>

CallCreate(d, a, c, dt) ==
    LET r == Service_create(rows, d, a, c, dt)
    IN  /\ r.out.ok => HasRoom(rows)
        /\ req' = [op |-> "create", description |-> d, amount |-> a,
                   category |-> c, date |-> dt]
        /\ resp' = r.out
        /\ rows' = r.tbl
        /\ UNCHANGED inflight

CallUpdate(id, kwargs) ==
    LET r == Service_update(rows, id, kwargs)
    IN  /\ req' = [op |-> "update", id |-> id, kwargs |-> kwargs]
        /\ resp' = r.out
        /\ rows' = r.tbl
        /\ UNCHANGED inflight

CallDelete(id) ==
    LET r == Service_delete(rows, id)
    IN  /\ req' = [op |-> "delete", id |-> id]
        /\ resp' = r.out
        /\ rows' = r.tbl
        /\ UNCHANGED inflight

Next ==
    \/ CallList
    \/ \E id \in Ids : CallGet(id)
    \/ \E t \in CallTuples :
          CallCreate(t.description, t.amount, t.category, t.date)
    \/ \E id \in Ids, kwargs \in KwargsInputs : CallUpdate(id, kwargs)
    \/ \E id \in Ids : CallDelete(id)

Spec == Init /\ [][Next]_vars

(***************************************************************************)
(* HTTP requests                                                           *)
(***************************************************************************)
GetEntries ==
    LET r == get_entries(rows)
    IN  /\ req' = [op |-> "GET"]
        /\ resp' = [code |-> r.code, body |-> r.body]
        /\ rows' = r.tbl
        /\ UNCHANGED inflight

PostEntry(data) ==
    LET r == add_entry(rows, data)
    IN  /\ r.code = 201 => HasRoom(rows)
        /\ req' = [op |-> "POST", data |-> data]
        /\ resp' = [code |-> r.code, body |-> r.body]
        /\ rows' = r.tbl
        /\ UNCHANGED inflight

PutEntry(id, data) ==
    LET r == update_entry(rows, id, data)
    IN  /\ req' = [op |-> "PUT", id |-> id, data |-> data]
        /\ resp' = [code |-> r.code, body |-> r.body]
        /\ rows' = r.tbl
        /\ UNCHANGED inflight

DeleteEntry(id) ==
    LET r == delete_entry(rows, id)
    IN  /\ req' = [op |-> "DELETE", id |-> id]
        /\ resp' = [code |-> r.code, body |-> r.body]
        /\ rows' = r.tbl
        /\ UNCHANGED inflight

NextHttp ==
    \/ GetEntries
    \/ \E data \in JsonBodies : PostEntry(data)
    \/ \E id \in Ids, data \in JsonBodies : PutEntry(id, data)
    \/ \E id \in Ids : DeleteEntry(id)

SpecHttp == Init /\ [][NextHttp]_vars

(***************************************************************************)
(* Properties of the application service (specification Spec)              *)
(***************************************************************************)
\* The arguments every value object accepts.
ValidArgs(a) ==
    /\ Description(a.description).ok
    /\ Amount(a.amount).ok
    /\ Category(a.category).ok
    /\ EntryDate(a.date).ok

\* Some field present in the partial-field set is refused by its value object.
InvalidKwargs(kwargs) ==
    \/ "description" \in DOMAIN kwargs /\ ~Description(kwargs["description"]).ok
    \/ "amount" \in DOMAIN kwargs /\ ~Amount(kwargs["amount"]).ok
    \/ "category" \in DOMAIN kwargs /\ ~Category(kwargs["category"]).ok
    \/ "date" \in DOMAIN kwargs /\ ~EntryDate(kwargs["date"]).ok

\* C1: for every valid (description, amount, category, date) tuple, create
\* returns an entry with a populated id, and get_by_id of that id yields an
\* entry with the same description, amount, category and date.
C1_CreateGetRoundTrip ==
    (req.op = "create" /\ ValidArgs(req)) =>
        /\ resp.ok
        /\ resp.value.id \in DOMAIN rows
        /\ \A f \in FieldSet : Service_get(rows, resp.value.id)[f] = resp.value[f]

\* C2: create with at least one invalid argument fails (with a validation
\* error; the formula accepts an exception of any class) and leaves the
\* stored rows unchanged.
C2_CreateRejectsInvalid ==
    [][(req'.op = "create" /\ ~ValidArgs(req')) =>
        (~resp'.ok /\ rows' = rows)]_vars

\* C3: update on an id with no stored row fails with the not-found error,
\* whatever the partial-field set, and leaves the stored rows unchanged.
C3_UpdateMissingIsNotFound ==
    [][(req'.op = "update" /\ req'.id \notin DOMAIN rows) =>
        (resp' = Raise("ValueError", "Not found") /\ rows' = rows)]_vars

C3_Witness ==
    /\ req.op = "update"
    /\ req.id \notin DOMAIN rows
    /\ DOMAIN req.kwargs = FieldSet
    /\ rows # EmptyTable
    /\ ~resp.ok

\* C4: update on an existing id leaves every field absent from the
\* partial-field set at its previous value, in the stored row and in the
\* returned entity; with an empty set all four fields keep their values.
C4_UpdateFrame ==
    [][(req'.op = "update" /\ req'.id \in DOMAIN rows) =>
        /\ req'.id \in DOMAIN rows'
        /\ \A f \in FieldSet \ DOMAIN req'.kwargs :
              /\ rows'[req'.id][f] = rows[req'.id][f]
              /\ resp'.ok => resp'.value[f] = rows[req'.id][f]]_vars

C4_Witness ==
    /\ req.op = "update"
    /\ resp.ok
    /\ DOMAIN req.kwargs = {"amount"}
    /\ rows[req.id].amount = req.kwargs["amount"]
    /\ rows[req.id].description = PyStr(<<>>)

\* C5: update with an invalid value for a field present in the
\* partial-field set fails (with a validation error; the formula accepts an
\* exception of any class) and the stored row keeps its four previous values.
C5_UpdateRejectsInvalid ==
    [][(req'.op = "update" /\ req'.id \in DOMAIN rows /\ InvalidKwargs(req'.kwargs)) =>
        /\ ~resp'.ok
        /\ rows'[req'.id] = rows[req'.id]]_vars

\* C6: delete(id) returns true exactly when a row with that id was stored
\* before the call, and afterwards no row with that id is stored.
C6_DeleteReportsRemoval ==
    [][req'.op = "delete" =>
        /\ resp'.ok
        /\ resp'.value = (req'.id \in DOMAIN rows)
        /\ req'.id \notin DOMAIN rows'
        /\ \A i \in DOMAIN rows \ {req'.id} : i \in DOMAIN rows' /\ rows'[i] = rows[i]]_vars

C6_Witness ==
    /\ req.op = "delete"
    /\ resp.value = TRUE
    /\ rows # EmptyTable

DateAfter(a, b) ==
    \/ a.date.y > b.date.y
    \/ a.date.y = b.date.y /\ a.date.m > b.date.m
    \/ a.date.y = b.date.y /\ a.date.m = b.date.m /\ a.date.d > b.date.d

\* C7: list() returns exactly the stored entries, each once, by date
\* descending, and entries of the same date by id descending.
C7_ListOrdered ==
    req.op = "list" =>
        LET l == resp.value
        IN  /\ Len(l) = Cardinality(DOMAIN rows)
            /\ {l[k].id : k \in 1..Len(l)} = DOMAIN rows
            /\ \A k \in 1..Len(l) :
                  \A f \in FieldSet : l[k][f] = rows[l[k].id][f]
            /\ \A i, j \in 1..Len(l) :
                  i < j => \/ DateAfter(l[i].date, l[j].date)
                           \/ l[i].date = l[j].date /\ l[i].id > l[j].id

C7_Witness ==
    /\ req.op = "list"
    /\ Len(resp.value) = 2
    /\ resp.value[1].date = resp.value[2].date
    /\ resp.value[1].id > resp.value[2].id

(***************************************************************************)
(* Properties of the HTTP routes (specification SpecHttp)                  *)
(***************************************************************************)
RECURSIVE TableTotal(_, _)
TableTotal(tbl, ids) ==
    IF ids = {} THEN 0
    ELSE LET i == CHOOSE i \in ids : TRUE
         IN  tbl[i].amount.num + TableTotal(tbl, ids \ {i})

RECURSIVE BodyTotal(_)
BodyTotal(entries) ==
    IF entries = <<>> THEN 0 ELSE Head(entries).amount.num + BodyTotal(Tail(entries))

\* C8: the running_total of GET /entries is the sum of the amounts of the
\* entries of the same response, which is the sum of the amounts of all
\* stored entries (0 when none is stored).
C8_RunningTotal ==
    req.op = "GET" =>
        /\ resp.code = 200
        /\ Len(resp.body.entries) = Cardinality(DOMAIN rows)
        /\ resp.body.running_total = PyNum(BodyTotal(resp.body.entries))
        /\ resp.body.running_total = PyNum(TableTotal(rows, DOMAIN rows))

C8_Witness ==
    /\ req.op = "GET"
    /\ Len(resp.body.entries) = 2
    /\ resp.body.running_total = PyNum(17)

\* Non-empty text with no whitespace at either end.
Trimmed(v) ==
    /\ IsStr(v)
    /\ v.str # <<>>
    /\ v.str[1] \notin Whitespace
    /\ v.str[Len(v.str)] \notin Whitespace

\* C9: every stored entry, and every entry of a success response of POST
\* /entries and PUT /entries/{id}, has a trimmed non-empty description and
\* category.
C9_TextTrimmed ==
    /\ \A id \in DOMAIN rows :
          Trimmed(rows[id].description) /\ Trimmed(rows[id].category)
    /\ (req.op \in {"POST", "PUT"} /\ resp.code \in {200, 201}) =>
          Trimmed(resp.body.description) /\ Trimmed(resp.body.category)

IsIsoDateText(t) ==
    /\ Len(t) = 10
    /\ t[5] = "-" /\ t[8] = "-"
    /\ \A i \in (1..10) \ {5, 8} : t[i] \in Digits

\* C10: the entry returned with 201 by POST /entries and with 200 by PUT
\* /entries/{id} has a number as amount and a YYYY-MM-DD string as date.
C10_EntryJsonShape ==
    ((req.op = "POST" /\ resp.code = 201) \/ (req.op = "PUT" /\ resp.code = 200)) =>
        /\ IsNum(resp.body.amount)
        /\ IsStr(resp.body.date)
        /\ IsIsoDateText(resp.body.date.str)

(***************************************************************************)
(* Concurrent requests (specification SpecRace): a PUT reads the table     *)
(* twice, in the service's get_by_id and in the repository's update, and   *)
(* another request's commit can fall between the two.  No lock or          *)
(* transaction spans them.                                                 *)
(***************************************************************************)
RacePosts == {t \in JsonTuples : validate_entry_data(t, FALSE).ok}

RacePuts ==
    { [amount |-> PyStr(<<"2", "0">>)],
      [description |-> PyStr(<<" ", "a">>)],
      [description |-> PyStr(<<>>)] }

\* The PUT handler up to the write: it answers at once, or has the loaded
\* entry in hand.
PutBegin(id, data) ==
    LET r == update_entry_load(rows, id, data)
    IN  /\ inflight = NoPut
        /\ IF r.done
           THEN /\ req' = [op |-> "PUT", id |-> id, data |-> data]
                /\ resp' = [code |-> r.response.code, body |-> r.response.body]
                /\ UNCHANGED <<rows, inflight>>
           ELSE /\ inflight' = [op |-> "PUT", id |-> id, data |-> data, entry |-> r.entry]
                /\ UNCHANGED <<rows, req, resp>>

\* The PUT handler from the write to its response.
PutFinish ==
    LET r == update_entry_write(rows, inflight.entry)
    IN  /\ inflight # NoPut
        /\ req' = [op |-> "PUT", id |-> inflight.id, data |-> inflight.data]
        /\ resp' = [code |-> r.code, body |-> r.body]
        /\ rows' = r.tbl
        /\ inflight' = NoPut

NextRace ==
    \/ \E data \in RacePosts : PostEntry(data)
    \/ \E id \in Ids, data \in RacePuts : PutBegin(id, data)
    \/ PutFinish
    \/ \E id \in Ids : DeleteEntry(id)

SpecRace == Init /\ [][NextRace]_vars

\* C11: a PUT whose update fails because no row matches the entry id is
\* answered 404, when the service finds no entry at load time and when the
\* repository's update finds no row at write time (a DELETE of the same id
\* fell between the two).  A step answers such a PUT when the request is a
\* valid PUT, no PUT is left in flight and the id had no row before the step.
C11_MissingRowIs404 ==
    [][(/\ req'.op = "PUT"
        /\ inflight' = NoPut
        /\ DOMAIN req'.data # {}
        /\ validate_entry_data(req'.data, TRUE).ok
        /\ req'.id \notin DOMAIN rows) => resp'.code = 404]_vars

====
